---- MODULE Spec2Model ----
(***************************************************************************)
(* Model of the batch driver simple_ortho/command_line.py: main() and      *)
(* _check_args().  One run of main() is one behaviour.  The inputs of the  *)
(* run (the arguments and the filesystem they name) are chosen in Init;    *)
(* the outcomes of the calls into rasterio and into the rectification      *)
(* engine (simple_ortho.Camera, simple_ortho.OrthoIm) are chosen when the  *)
(* call is made.                                                           *)
(***************************************************************************)
EXTENDS Integers, Sequences, FiniteSets

\* ------------------------------------------------------------------ bounds
\* largest number of patterns in src_im_file
MaxPatterns == 2

\* ------------------------------------------------------------- value sets
\* Python's None, for the optional arguments
None == "None"

\* A path or pattern of src_im_file: its directory components as written,
\* and the stem and extension of its last component ("*" is the wildcard).
d1_all_tif == [dirs |-> <<"d1">>, stem |-> "*", ext |-> "tif"]
d2_a_tif == [dirs |-> <<".", "d2">>, stem |-> "a", ext |-> "tif"]
PatternSpecs == {d1_all_tif, d2_a_tif}

\* The image files that may exist on the filesystem
ImageFiles ==
    { [dirs |-> <<"d1">>, stem |-> "a", ext |-> "tif"],
      [dirs |-> <<"d1">>, stem |-> "b", ext |-> "tif"],
      [dirs |-> <<"d2">>, stem |-> "a", ext |-> "tif"] }

\* Configuration documents: a mapping with sub-mappings camera and ortho
FullConfig(ovw) ==
    [camera |-> [focal_len |-> "f", sensor_size |-> "s"],
     ortho  |-> [build_ovw |-> ovw]]
NoCameraConfig == [ortho |-> [build_ovw |-> TRUE]]
NoOrthoConfig == [camera |-> [focal_len |-> "f", sensor_size |-> "s"]]
Unset == [unset |-> TRUE]

\* Python's None where a path object is expected
NonePath == [none |-> TRUE]

\* The states of a file that holds a YAML document; the text of a document
\* is the sequence of its top-level <<key, value>> entries, in file order
MissingFile == [kind |-> "missing"]
BadFile == [kind |-> "unparsable"]
YamlFile(text) == [kind |-> "yaml", text |-> text]

\* a mapping written out by hand, its keys in the given order
Written(mapping, order) ==
    [i \in 1..Len(order) |-> <<order[i], mapping[order[i]]>>]

\* A row of the position and orientation file.  Positions are whole linear
\* units; angles are written in tenths of a degree.
PoseRow(file, easting, northing, altitude, omega, phi, kappa) ==
    [file |-> file, easting |-> easting, northing |-> northing,
     altitude |-> altitude, omega |-> omega, phi |-> phi, kappa |-> kappa]
row_a == PoseRow("a", 500000, 4000000, 1200, 15, -3, 900)
row_c == PoseRow("c", 500100, 4000200, 1300, -20, 45, 1800)

\* The states of the position and orientation file
PoseFile(rows) == [kind |-> "table", rows |-> rows]
PoseFiles == {MissingFile, BadFile, PoseFile({row_a, row_c})}

VARIABLES
    src_im_file,    \* argument: sequence of paths / wildcard patterns
    ortho_dir,      \* argument: output directory, or None
    read_conf,      \* argument: configuration file to read, or None
    write_conf,     \* argument: configuration file to write, or None
    fs0,            \* the filesystem when main() was called
    fs,             \* the filesystem: images, dem, pos, odir, conf, wc, the
                    \* orthos written, and the open source image datasets
    pc,             \* position of main()
    config,         \* the loaded configuration
    cam_pos_orid,   \* the loaded pose table (its rows)
    spec_i,         \* index into src_im_file of the outer loop
    pending,        \* glob results of the current pattern still to visit
    job,            \* local variables of the current loop body
    ex,             \* the exception in flight
    log,            \* records written to the logger
    calls,          \* calls made into rasterio and the engine, in order
    done,           \* terminal outcome of every loop body run so far
    status          \* how main() ended: running, returned, exit0, raised

vars == <<src_im_file, ortho_dir, read_conf, write_conf, fs0, fs, pc, config,
          cam_pos_orid, spec_i, pending, job, ex, log, calls, done, status>>

inputs == <<src_im_file, ortho_dir, read_conf, write_conf, fs0>>

NoJob == [src_im_filename |-> Unset, ortho_im_filename |-> NonePath,
          position |-> <<>>, orientation |-> <<>>,
          geo_transform |-> <<>>, im_size |-> <<>>]

\* ----------------------------------------------------------- pure helpers
\* pathlib.Path(spec): "." components are dropped
RECURSIVE Normalise(_)
Normalise(dirs) ==
    IF dirs = <<>> THEN <<>>
    ELSE IF Head(dirs) = "." THEN Normalise(Tail(dirs))
    ELSE <<Head(dirs)>> \o Normalise(Tail(dirs))

Path(spec) == [dirs |-> Normalise(spec.dirs), stem |-> spec.stem, ext |-> spec.ext]

\* fnmatch of one name part against a pattern part
Match(pat, s) == pat = "*" \/ pat = s

\* src_im_file_path.parent.glob(src_im_file_path.name)
Glob(src_im_file_path, images) ==
    { f \in images : /\ f.dirs = src_im_file_path.dirs
                     /\ Match(src_im_file_path.stem, f.stem)
                     /\ Match(src_im_file_path.ext, f.ext) }

\* rank of a file in directory listing order
FileRank(f) == IF f.stem = "a" THEN 0 ELSE 1

\* the glob results in the order the generator yields them
RECURSIVE GlobSeq(_)
GlobSeq(S) ==
    IF S = {} THEN <<>>
    ELSE LET f == CHOOSE x \in S : \A y \in S : FileRank(x) <= FileRank(y)
         IN  <<f>> \o GlobSeq(S \ {f})

\* logger.error / logger.warning / logger.info
LogRec(level, text, arg) == [level |-> level, text |-> text, arg |-> arg]

\* raise Exception(f'...{arg}...')
Exc(type, text, arg) == [type |-> type, text |-> text, arg |-> arg]

\* no exception in flight
NoEx == Exc("none", "none", "none")

\* ------------------------------------------------------------------- Init
ConfigDocs == {FullConfig(TRUE), FullConfig(FALSE), NoCameraConfig, NoOrthoConfig}

\* a custom configuration file lists ortho before camera
CustomOrder(d) ==
    LET Has(k) == k \in DOMAIN d IN SelectSeq(<<"ortho", "camera">>, Has)
ConfFiles ==
    {MissingFile, BadFile} \cup {YamlFile(Written(d, CustomOrder(d))) : d \in ConfigDocs}

\* config.yaml in the simple_ortho root
PackagedConf == YamlFile(Written(FullConfig(TRUE), <<"camera", "ortho">>))

PatternLists ==
    UNION { [1..n -> PatternSpecs] : n \in 1..MaxPatterns }

Init ==
    /\ src_im_file \in PatternLists
    /\ ortho_dir \in {None, "out"}
    /\ read_conf \in {None, "custom.yaml"}
    /\ write_conf \in {None, "new.yaml"}
    /\ \E images \in SUBSET ImageFiles, dem \in BOOLEAN, pos \in PoseFiles,
          odir \in {"absent", "file", "dir"},
          cf \in ConfFiles \cup {PackagedConf},
          wdir \in BOOLEAN :
          \* files the arguments do not name are held at one representative
          /\ ortho_dir = None => odir = "absent"
          /\ write_conf = None => wdir
          \* the default location holds the packaged configuration or nothing
          /\ read_conf = None => cf \in {MissingFile, PackagedConf}
          /\ read_conf # None => cf \in ConfFiles
          /\ fs = [images |-> images, dem |-> dem, pos |-> pos, odir |-> odir,
                   conf |-> IF read_conf = None
                            THEN [default |-> cf, custom |-> MissingFile]
                            ELSE [default |-> PackagedConf, custom |-> cf],
                   wc_dir |-> wdir, wc |-> MissingFile,
                   ortho |-> {}, handles |-> <<>>]
    /\ fs0 = fs
    /\ pc = "read_conf"
    /\ config = Unset
    /\ cam_pos_orid = {}
    /\ spec_i = 1
    /\ pending = <<>>
    /\ job = NoJob
    /\ ex = NoEx
    /\ log = <<>>
    /\ calls = <<>>
    /\ done = <<>>
    /\ status = "running"

\* -------------------------------------------------------- exception model
\* mutant: the handlers name one exception class only (`except KeyError`)
IsException_OneClass(e) == e.type = "KeyError"

\* mutant: the handlers are bare `except:` clauses and catch SystemExit too
IsException_Bare(e) == TRUE

\* `except Exception` catches every exception class but those that derive
\* from BaseException only (SystemExit, raised by exit(0))
IsException(e) == e.type # "SystemExit"

\* reason recorded for an image whose loop body ended in the handler
Skipped(im, e) == [im |-> im, outcome |-> "Skipped", reason |-> e.text]
Succeeded(im) == [im |-> im, outcome |-> "Succeeded", reason |-> "none"]

\* ------------------------------------------------------ main(): lines 108-126
config_filename == IF read_conf = None THEN "default" ELSE "custom"

\* yaml.safe_load of a document: a mapping from each key to the value of
\* its last entry
yaml_safe_load(file) ==
    LET t == file.text
        Last(k) == CHOOSE i \in 1..Len(t) :
                      /\ t[i][1] = k
                      /\ \A j \in 1..Len(t) : t[j][1] = k => j <= i
    IN  [k \in {t[i][1] : i \in 1..Len(t)} |-> t[Last(k)][2]]

\* the keys of the configuration documents in sorted order
SortedKeys == <<"camera", "ortho">>

\* yaml.dump of a mapping: one entry per key, keys sorted (sort_keys=True)
yaml_dump(mapping) ==
    LET Has(k) == k \in DOMAIN mapping
    IN  YamlFile(Written(mapping, SelectSeq(SortedKeys, Has)))

\* mutant: a configuration file that does not exist is replaced by the
\* packaged configuration
ReadConf_DefaultOnMissing ==
    /\ pc = "read_conf"
    /\ LET file == fs.conf[config_filename] IN
       IF file.kind = "unparsable"
       THEN /\ ex' = Exc("YAMLError", "ConfigParseError", config_filename)
            /\ pc' = "except_main"
            /\ UNCHANGED config
       ELSE /\ config' = yaml_safe_load(IF file.kind = "missing" THEN PackagedConf ELSE file)
            /\ pc' = IF write_conf # None THEN "write_conf" ELSE "check_args"
            /\ UNCHANGED ex
    /\ UNCHANGED <<inputs, fs, cam_pos_orid, spec_i, pending, job, log, calls,
                   done, status>>

\* lines 108-118: locate, open and parse the configuration
ReadConf ==
    /\ pc = "read_conf"
    /\ LET file == fs.conf[config_filename] IN
       IF file.kind = "missing"
       THEN /\ ex' = Exc("Exception", "ConfigNotFound", config_filename)
            /\ pc' = "except_main"
            /\ UNCHANGED config
       ELSE IF file.kind = "unparsable"
       THEN /\ ex' = Exc("YAMLError", "ConfigParseError", config_filename)
            /\ pc' = "except_main"
            /\ UNCHANGED config
       ELSE /\ config' = yaml_safe_load(file)
            /\ pc' = IF write_conf # None THEN "write_conf" ELSE "check_args"
            /\ UNCHANGED ex
    /\ UNCHANGED <<inputs, fs, cam_pos_orid, spec_i, pending, job, log, calls,
                   done, status>>

\* mutant: the packaged default configuration is written, as the help text
\* of --write-conf says, where the loaded one should be
WriteConf_Default ==
    /\ pc = "write_conf"
    /\ IF fs.wc_dir
       THEN /\ fs' = [fs EXCEPT !.wc = yaml_dump(yaml_safe_load(fs.conf["default"]))]
            /\ log' = Append(log, LogRec("info", "WroteConfig", write_conf))
            /\ ex' = Exc("SystemExit", "exit", "0")
       ELSE /\ ex' = Exc("OSError", "CannotOpenForWrite", write_conf)
            /\ UNCHANGED <<fs, log>>
    /\ pc' = "except_main"
    /\ UNCHANGED <<inputs, config, cam_pos_orid, spec_i, pending, job, calls,
                   done, status>>

\* lines 120-126: write the configuration and exit(0)
WriteConf ==
    /\ pc = "write_conf"
    /\ IF fs.wc_dir
       THEN /\ fs' = [fs EXCEPT !.wc = yaml_dump(config)]
            /\ log' = Append(log, LogRec("info", "WroteConfig", write_conf))
            /\ ex' = Exc("SystemExit", "exit", "0")
       ELSE /\ ex' = Exc("OSError", "CannotOpenForWrite", write_conf)
            /\ UNCHANGED <<fs, log>>
    /\ pc' = "except_main"
    /\ UNCHANGED <<inputs, config, cam_pos_orid, spec_i, pending, job, calls,
                   done, status>>

\* ------------------------------------------------- _check_args(): lines 56-78
\* the patterns of src_im_file that match no file, by position
NoMatchAt(images) ==
    { i \in 1..Len(src_im_file) : Glob(Path(src_im_file[i]), images) = {} }

FirstOf(S) == CHOOSE i \in S : \A j \in S : i <= j

\* pathlib.Path.is_dir and pathlib.Path.exists of ortho_dir
is_dir(f) == f.odir = "dir"
exists(f) == f.odir # "absent"

\* mutant: the ortho_dir check tests exists() where it should test is_dir()
OrthoDirError_Exists(f) ==
    IF ortho_dir # None /\ ~exists(f)
    THEN Exc("Exception", "InvalidOrthoDir", ortho_dir)
    ELSE NoEx

\* lines 72-75: the exception the ortho_dir check raises, or NoEx
OrthoDirError(f) ==
    IF ortho_dir # None /\ ~is_dir(f)
    THEN Exc("Exception", "InvalidOrthoDir", ortho_dir)
    ELSE NoEx

\* mutant: the no-match message formats src_im_file_path, the parsed path,
\* where it should format src_im_file_spec
CheckArgsError_ParsedPath(f) ==
    IF NoMatchAt(f.images) # {}
    THEN Exc("Exception", "NoMatch", Path(src_im_file[FirstOf(NoMatchAt(f.images))]))
    ELSE IF ~f.dem THEN Exc("Exception", "DemNotFound", "dem_file")
    ELSE IF f.pos.kind = "missing"
    THEN Exc("Exception", "PoseFileNotFound", "pos_ori_file")
    ELSE OrthoDirError(f)

\* lines 59-75: the first exception _check_args raises, or NoEx
CheckArgsError(f) ==
    IF NoMatchAt(f.images) # {}
    THEN Exc("Exception", "NoMatch", src_im_file[FirstOf(NoMatchAt(f.images))])
    ELSE IF ~f.dem THEN Exc("Exception", "DemNotFound", "dem_file")
    ELSE IF f.pos.kind = "missing"
    THEN Exc("Exception", "PoseFileNotFound", "pos_ori_file")
    ELSE OrthoDirError(f)

\* mutant: a missing ortho_dir is created before the other checks are made
CheckArgs_MkdirFirst ==
    /\ pc = "check_args"
    /\ LET create == ortho_dir # None /\ ~exists(fs)
           made == IF create THEN [fs EXCEPT !.odir = "dir"] ELSE fs
           e == CheckArgsError(made) IN
       /\ fs' = made
       /\ log' = IF create
                 THEN Append(log, LogRec("warning", "CreatingOrthoDir", ortho_dir))
                 ELSE log
       /\ IF e # NoEx
          THEN ex' = e /\ pc' = "except_main"
          ELSE pc' = "read_pose" /\ UNCHANGED ex
    /\ UNCHANGED <<inputs, config, cam_pos_orid, spec_i, pending, job, calls,
                   done, status>>

\* line 129 with lines 56-78
CheckArgs ==
    /\ pc = "check_args"
    /\ LET e == CheckArgsError(fs) IN
       IF e # NoEx
       THEN /\ ex' = e
            /\ pc' = "except_main"
            /\ UNCHANGED <<fs, log>>
       ELSE /\ IF ortho_dir # None /\ ~exists(fs)
               THEN /\ log' = Append(log, LogRec("warning", "CreatingOrthoDir", ortho_dir))
                    /\ fs' = [fs EXCEPT !.odir = "dir"]
               ELSE UNCHANGED <<fs, log>>
            /\ pc' = "read_pose"
            /\ UNCHANGED ex
    /\ UNCHANGED <<inputs, config, cam_pos_orid, spec_i, pending, job, calls,
                   done, status>>

\* ------------------------------------------------------ main(): lines 131-138
\* lines 132-133: pd.read_csv of the position and orientation file
ReadPose ==
    /\ pc = "read_pose"
    /\ IF fs.pos.kind = "table"
       THEN /\ cam_pos_orid' = fs.pos.rows
            /\ pc' = "for_spec"
            /\ UNCHANGED ex
       ELSE /\ ex' = Exc("ParserError", "PoseTableParseError", "pos_ori_file")
            /\ pc' = "except_main"
            /\ UNCHANGED cam_pos_orid
    /\ UNCHANGED <<inputs, fs, config, spec_i, pending, job, log, calls, done,
                   status>>

\* lines 136-138: the next pattern of src_im_file is expanded
NextSpec ==
    /\ pc = "for_spec"
    /\ spec_i <= Len(src_im_file)
    /\ pending' = GlobSeq(Glob(Path(src_im_file[spec_i]), fs.images))
    /\ spec_i' = spec_i + 1
    /\ pc' = "for_image"
    /\ UNCHANGED <<inputs, fs, config, cam_pos_orid, job, ex, log, calls, done,
                   status>>

\* line 138: the next file of the expansion becomes src_im_filename
NextImage ==
    /\ pc = "for_image"
    /\ IF pending = <<>>
       THEN /\ pc' = "for_spec"
            /\ UNCHANGED <<pending, job>>
       ELSE /\ job' = [NoJob EXCEPT !.src_im_filename = Head(pending)]
            /\ pending' = Tail(pending)
            /\ pc' = "locate_pose"
    /\ UNCHANGED <<inputs, fs, config, cam_pos_orid, spec_i, ex, log, calls,
                   done, status>>

\* line 136 exhausted: main() returns
Return ==
    /\ pc = "for_spec"
    /\ spec_i > Len(src_im_file)
    /\ pc' = "end"
    /\ status' = "returned"
    /\ UNCHANGED <<inputs, fs, config, cam_pos_orid, spec_i, pending, job, ex,
                   log, calls, done>>

\* ------------------------------------------------------ main(): lines 139-181
src_im_filename == job.src_im_filename

\* mutant: the output file is named after the source file name, extension
\* included, where it should be named after its stem
OrthoFilename_Name(im) ==
    IF ortho_dir # None
    THEN [dirs |-> <<ortho_dir>>, stem |-> im.stem \o "." \o im.ext \o "_ORTHO",
          ext |-> "tif"]
    ELSE NonePath

\* lines 147-151: the output path handed to OrthoIm, or None
OrthoFilename(im) ==
    IF ortho_dir # None
    THEN [dirs |-> <<ortho_dir>>, stem |-> im.stem \o "_ORTHO", ext |-> "tif"]
    ELSE NonePath

\* a call into rasterio or the engine for the current image, with the
\* locals of the loop body it is handed
Call(op, ok) ==
    [op |-> op, im |-> src_im_filename, out |-> job.ortho_im_filename,
     position |-> job.position, orientation |-> job.orientation,
     geo_transform |-> job.geo_transform, im_size |-> job.im_size,
     result |-> IF ok THEN "returned" ELSE "raised"]

\* str(ex) of an exception raised by the engine: the engine's own words
EngineMessage == "engine-defined message"

\* where the engine writes the ortho: the path it is handed or, handed
\* None, <stem>_ORTHO.tif beside the source image
EnginePath(im, out) ==
    IF out = NonePath
    THEN [dirs |-> im.dirs, stem |-> im.stem \o "_ORTHO", ext |-> "tif"]
    ELSE out

\* the orthos on disk after the engine has written the ortho of im to path
WriteOrtho(orthos, path, im) ==
    {a \in orthos : a.path # path} \cup {[path |-> path, src |-> im, ovw |-> FALSE]}

\* the orthos on disk after overviews were added to the ortho at path
AddOverviews(orthos, path) ==
    {IF a.path = path THEN [a EXCEPT !.ovw = TRUE] ELSE a : a \in orthos}

\* pi in units of 1e-4
PiE4 == 31416

\* cam_pos_orid.index and cam_pos_orid.loc[stem]
Index(df) == {r.file : r \in df}
Loc(df, stem) == CHOOSE r \in df : r.file = stem

\* mutant: the angle is passed on in degrees
Radians_Degrees(tenths) == tenths

\* line 144: np.pi * angle / 180., the angle in tenths of a degree and the
\* result in units of 1e-4 radian
Radians(tenths) == (PiE4 * tenths) \div 1800

\* lines 143-145: orientation and position of the row of the image
Orientation(im_pos_ori) ==
    <<Radians(im_pos_ori.omega), Radians(im_pos_ori.phi), Radians(im_pos_ori.kappa)>>
Position(im_pos_ori) ==
    <<im_pos_ori.easting, im_pos_ori.northing, im_pos_ori.altitude>>

\* an exception raised inside the loop body goes to the handler of line 179
Raise(e) ==
    /\ ex' = e
    /\ pc' = "except_image"

\* mutant: the loop body does not test the stem against the table index
LocatePose_NoIndexTest ==
    /\ pc = "locate_pose"
    /\ job' = [job EXCEPT !.ortho_im_filename = OrthoFilename(src_im_filename)]
    /\ pc' = "open_source"
    /\ UNCHANGED <<inputs, fs, config, cam_pos_orid, spec_i, pending, ex, log,
                   calls, done, status>>

\* lines 140-151: pose lookup, pose conversion, output file name
LocatePose ==
    /\ pc = "locate_pose"
    /\ IF src_im_filename.stem \notin Index(cam_pos_orid)
       THEN /\ Raise(Exc("Exception", "PoseNotFound", src_im_filename.stem))
            /\ UNCHANGED job
       ELSE /\ LET im_pos_ori == Loc(cam_pos_orid, src_im_filename.stem) IN
               job' = [job EXCEPT !.orientation = Orientation(im_pos_ori),
                                  !.position = Position(im_pos_ori),
                                  !.ortho_im_filename = OrthoFilename(src_im_filename)]
            /\ pc' = "open_source"
            /\ UNCHANGED ex
    /\ UNCHANGED <<inputs, fs, config, cam_pos_orid, spec_i, pending, log,
                   calls, done, status>>

\* line 154: rio.open of the source image; the with block is entered
OpenSource ==
    /\ pc = "open_source"
    /\ \E ok \in BOOLEAN :
          /\ calls' = Append(calls, Call("rio.open", ok))
          /\ IF ok
             THEN /\ fs' = [fs EXCEPT !.handles = Append(@, src_im_filename)]
                  /\ pc' = "read_geometry"
                  /\ UNCHANGED ex
             ELSE /\ Raise(Exc("RasterioIOError", "IOError", src_im_filename))
                  /\ UNCHANGED fs
    /\ UNCHANGED <<inputs, config, cam_pos_orid, spec_i, pending, job, log,
                   done, status>>

\* im.transform and np.float64([im.width, im.height]) of a source image
transform(im) == <<"transform", im>>
size(im) == <<"width", "height", im>>

\* mutant: the dataset is opened without a with block and never closed
ReadGeometry_NoClose ==
    /\ pc = "read_geometry"
    /\ \E ok \in BOOLEAN :
          IF ok
          THEN /\ job' = [job EXCEPT !.geo_transform = transform(src_im_filename),
                                     !.im_size = size(src_im_filename)]
               /\ pc' = "build_camera"
               /\ UNCHANGED ex
          ELSE /\ Raise(Exc("RasterioIOError", "ReadError", src_im_filename))
               /\ UNCHANGED job
    /\ UNCHANGED <<inputs, fs, config, cam_pos_orid, spec_i, pending, log,
                   calls, done, status>>

\* lines 155-156: transform and size are read inside the with block; the
\* block is left, normally or by an exception, and the dataset is closed
ReadGeometry ==
    /\ pc = "read_geometry"
    /\ fs' = [fs EXCEPT !.handles = SubSeq(@, 1, Len(@) - 1)]
    /\ \E ok \in BOOLEAN :
          IF ok
          THEN /\ job' = [job EXCEPT !.geo_transform = transform(src_im_filename),
                                     !.im_size = size(src_im_filename)]
               /\ pc' = "build_camera"
               /\ UNCHANGED ex
          ELSE /\ Raise(Exc("RasterioIOError", "ReadError", src_im_filename))
               /\ UNCHANGED job
    /\ UNCHANGED <<inputs, config, cam_pos_orid, spec_i, pending, log,
                   calls, done, status>>

\* lines 158-161: config['camera'] and simple_ortho.Camera(...)
BuildCamera ==
    /\ pc = "build_camera"
    /\ IF "camera" \notin DOMAIN config
       THEN /\ Raise(Exc("KeyError", "KeyError", "camera"))
            /\ UNCHANGED calls
       ELSE \E ok \in BOOLEAN :
               /\ calls' = Append(calls, Call("Camera", ok))
               /\ IF ok
                  THEN pc' = "rectify" /\ UNCHANGED ex
                  ELSE Raise(Exc("EngineError", "CameraError", EngineMessage))
    /\ UNCHANGED <<inputs, fs, config, cam_pos_orid, spec_i, pending, job, log,
                   done, status>>

\* lines 163-170: simple_ortho.OrthoIm(...).orthorectify()
Rectify ==
    /\ pc = "rectify"
    /\ LET started == Append(log, LogRec("info", "Orthorectifying", src_im_filename)) IN
       IF "ortho" \notin DOMAIN config
       THEN /\ Raise(Exc("KeyError", "KeyError", "ortho"))
            /\ log' = started
            /\ UNCHANGED <<calls, fs>>
       ELSE \E ok \in BOOLEAN :
               /\ calls' = Append(calls, Call("orthorectify", ok))
               /\ IF ok
                  THEN /\ pc' = "overviews"
                       /\ fs' = [fs EXCEPT !.ortho =
                                    WriteOrtho(@, EnginePath(src_im_filename,
                                                             job.ortho_im_filename),
                                               src_im_filename)]
                       /\ log' = Append(started, LogRec("info", "Completed", src_im_filename))
                       /\ UNCHANGED ex
                  ELSE /\ Raise(Exc("EngineError", "RectifyError", EngineMessage))
                       /\ log' = started
                       /\ UNCHANGED fs
    /\ UNCHANGED <<inputs, config, cam_pos_orid, spec_i, pending, job, done,
                   status>>

\* mutant: overviews are built whatever config['ortho']['build_ovw'] says
Overviews_IgnoreFlag ==
    /\ pc = "overviews"
    /\ LET started == Append(log, LogRec("info", "BuildingOverviews", src_im_filename)) IN
       \E ok \in BOOLEAN :
          /\ calls' = Append(calls, Call("build_ortho_overviews", ok))
          /\ IF ok
             THEN /\ pc' = "for_image"
                  /\ fs' = [fs EXCEPT !.ortho =
                               AddOverviews(@, EnginePath(src_im_filename,
                                                          job.ortho_im_filename))]
                  /\ log' = Append(started, LogRec("info", "Completed", src_im_filename))
                  /\ done' = Append(done, Succeeded(src_im_filename))
                  /\ UNCHANGED ex
             ELSE /\ Raise(Exc("EngineError", "OverviewError", EngineMessage))
                  /\ log' = started
                  /\ UNCHANGED <<done, fs>>
    /\ UNCHANGED <<inputs, config, cam_pos_orid, spec_i, pending, job,
                   status>>

\* lines 172-177: build_ortho_overviews() when config['ortho']['build_ovw']
Overviews ==
    /\ pc = "overviews"
    /\ IF config["ortho"]["build_ovw"]
       THEN LET started == Append(log, LogRec("info", "BuildingOverviews", src_im_filename)) IN
            \E ok \in BOOLEAN :
               /\ calls' = Append(calls, Call("build_ortho_overviews", ok))
               /\ IF ok
                  THEN /\ pc' = "for_image"
                       /\ fs' = [fs EXCEPT !.ortho =
                                    AddOverviews(@, EnginePath(src_im_filename,
                                                               job.ortho_im_filename))]
                       /\ log' = Append(started, LogRec("info", "Completed", src_im_filename))
                       /\ done' = Append(done, Succeeded(src_im_filename))
                       /\ UNCHANGED ex
                  ELSE /\ Raise(Exc("EngineError", "OverviewError", EngineMessage))
                       /\ log' = started
                       /\ UNCHANGED <<done, fs>>
       ELSE /\ pc' = "for_image"
            /\ done' = Append(done, Succeeded(src_im_filename))
            /\ UNCHANGED <<ex, log, calls, fs>>
    /\ UNCHANGED <<inputs, config, cam_pos_orid, spec_i, pending, job,
                   status>>

\* mutant: the handler of the loop body removes the ortho of the failed image
ExceptImage_Cleanup ==
    /\ pc = "except_image"
    /\ IF IsException(ex)
       THEN /\ log' = Append(log, LogRec("error", ex.text, ex.arg))
            /\ fs' = [fs EXCEPT !.ortho = {a \in @ : a.src # src_im_filename}]
            /\ done' = Append(done, Skipped(src_im_filename, ex))
            /\ ex' = NoEx
            /\ pc' = "for_image"
       ELSE /\ pc' = "except_main"
            /\ UNCHANGED <<ex, log, done, fs>>
    /\ UNCHANGED <<inputs, config, cam_pos_orid, spec_i, pending, job,
                   calls, status>>

\* mutant: the handler of the loop body logs and raises again
ExceptImage_Reraise ==
    /\ pc = "except_image"
    /\ log' = Append(log, LogRec("error", ex.text, ex.arg))
    /\ pc' = "except_main"
    /\ UNCHANGED <<inputs, fs, config, cam_pos_orid, spec_i, pending, job, ex,
                   calls, done, status>>

\* lines 179-181: the handler of the loop body logs and goes on
ExceptImage ==
    /\ pc = "except_image"
    /\ IF IsException(ex)
       THEN /\ log' = Append(log, LogRec("error", ex.text, ex.arg))
            /\ done' = Append(done, Skipped(src_im_filename, ex))
            /\ ex' = NoEx
            /\ pc' = "for_image"
       ELSE /\ pc' = "except_main"
            /\ UNCHANGED <<ex, log, done>>
    /\ UNCHANGED <<inputs, fs, config, cam_pos_orid, spec_i, pending, job,
                   calls, status>>

\* mutant: the handler of main() logs and does not raise again
ExceptMain_Swallow ==
    /\ pc = "except_main"
    /\ log' = IF IsException(ex)
              THEN Append(log, LogRec("error", ex.text, ex.arg))
              ELSE log
    /\ status' = IF IsException(ex) THEN "returned" ELSE "exit0"
    /\ pc' = "end"
    /\ UNCHANGED <<inputs, fs, config, cam_pos_orid, spec_i, pending, job, ex,
                   calls, done>>

\* lines 183-185: the handler of main() logs and re-raises; what it does not
\* catch leaves main() as it is
ExceptMain ==
    /\ pc = "except_main"
    /\ log' = IF IsException(ex)
              THEN Append(log, LogRec("error", ex.text, ex.arg))
              ELSE log
    /\ status' = IF ex.type = "SystemExit" THEN "exit0" ELSE "raised"
    /\ pc' = "end"
    /\ UNCHANGED <<inputs, fs, config, cam_pos_orid, spec_i, pending, job, ex,
                   calls, done>>

Next ==
    \/ ReadConf
    \/ WriteConf
    \/ CheckArgs
    \/ ReadPose
    \/ NextSpec
    \/ NextImage
    \/ Return
    \/ LocatePose
    \/ OpenSource
    \/ ReadGeometry
    \/ BuildCamera
    \/ Rectify
    \/ Overviews
    \/ ExceptImage
    \/ ExceptMain

Spec == Init /\ [][Next]_vars

\* ================================================================ properties
\* positions of main() inside the body of the image loop
BodyPcs == {"locate_pose", "open_source", "read_geometry", "build_camera", "rectify",
            "overviews", "except_image"}

\* the images the loop visits for the first n patterns, in order
RECURSIVE Resolved(_)
Resolved(n) ==
    IF n = 0 THEN <<>>
    ELSE Resolved(n - 1) \o GlobSeq(Glob(Path(src_im_file[n]), fs.images))

\* the images whose loop body has begun
Started ==
    LET r == Resolved(spec_i - 1) IN SubSeq(r, 1, Len(r) - Len(pending))

DoneImages == [i \in 1..Len(done) |-> done[i].im]

\* the distinct paths the patterns resolve to
ResolvedPaths ==
    UNION { Glob(Path(src_im_file[i]), fs.images) : i \in 1..Len(src_im_file) }

\* the run is in batch mode and every batch-level input is valid
InputsValid ==
    /\ write_conf = None
    /\ fs.conf[config_filename].kind = "yaml"
    /\ CheckArgsError(fs) = NoEx
    /\ fs.pos.kind = "table"

\* the last record logged is the error record of the exception in flight
LoggedLast(e) == log # <<>> /\ log[Len(log)] = LogRec("error", e.text, e.arg)

\* C1: once the image loop has begun, an exception of any step of a loop
\* body ends in the handler of that body: main() never fails, every image
\* the loop has reached has exactly one terminal outcome or is the one in
\* progress, and at the end every image of every pattern has an outcome.
C1_FailureIsolation ==
    spec_i > 1 =>
        /\ status # "raised" /\ pc # "except_main"
        /\ pc \in {"for_spec", "for_image", "end"} => DoneImages = Started
        /\ pc \in BodyPcs =>
              /\ Started # <<>>
              /\ src_im_filename = Started[Len(Started)]
              /\ DoneImages = SubSeq(Started, 1, Len(Started) - 1)
        /\ pc = "end" => DoneImages = Resolved(Len(src_im_file))

\* a failed image is followed by an image that succeeded
C1_Witness ==
    /\ status = "returned"
    /\ \E i, j \in 1..Len(done) :
          /\ i < j
          /\ done[i].outcome = "Skipped" /\ done[i].reason = "RectifyError"
          /\ done[j].outcome = "Succeeded"

\* C2 (as claimed): at the end of the batch the number of terminal outcomes
\* is the number of distinct resolved paths, each path processed once.
C2_ExactlyOnce ==
    status = "returned" =>
        /\ Len(done) = Cardinality(ResolvedPaths)
        /\ \A f \in ResolvedPaths :
              Cardinality({i \in 1..Len(done) : done[i].im = f}) = 1

\* C3 (as claimed): with a write-config path and a loaded configuration,
\* main() writes the configuration and ends with exit status 0.
C3_AlwaysWritesAndExits ==
    (write_conf # None /\ config # Unset /\ pc = "end") =>
        (status = "exit0" /\ fs.wc = yaml_dump(config))

\* C3 (amended): with a write-config path and a loaded configuration nothing
\* but the write happens: no check, no pose table, no pattern expanded, no
\* call for any image; and when the write-config path can be opened for
\* writing, the configuration is written and SystemExit(0) leaves main()
\* without being logged by the handler of main().
C3_WriteAndExit ==
    (write_conf # None /\ config # Unset) =>
        /\ pc \in {"write_conf", "except_main", "end"}
        /\ ex.text \in {"none", "exit", "CannotOpenForWrite"}
        /\ calls = <<>> /\ done = <<>> /\ cam_pos_orid = {} /\ spec_i = 1
        /\ \A i \in 1..Len(log) : log[i].level # "warning"
        /\ (pc = "end" /\ fs.wc_dir) =>
              /\ status = "exit0"
              /\ fs.wc = yaml_dump(config)
              /\ \A i \in 1..Len(log) : log[i].level # "error"

\* the process exited with status 0 although the batch-level inputs are bad
C3_Witness ==
    /\ status = "exit0"
    /\ fs.wc.kind = "yaml"
    /\ NoMatchAt(fs.images) # {} /\ ~fs.dem /\ fs.pos.kind = "missing"

\* the output directory did not exist when main() was called
OrthoDirWasAbsent ==
    \/ fs.odir = "absent"
    \/ \E i \in 1..Len(log) : log[i].text = "CreatingOrthoDir"

\* C4 (as claimed): an output directory that does not exist is created with
\* a warning, _check_args does not fail, and every orthorectify call is
\* given an output path inside it.
C4_OrthoDirCreated ==
    (/\ ortho_dir # None /\ OrthoDirWasAbsent
     /\ write_conf = None /\ config # Unset
     /\ pc \notin {"read_conf", "check_args"}
     /\ NoMatchAt(fs.images) = {} /\ fs.dem /\ fs.pos.kind # "missing") =>
        /\ fs.odir = "dir"
        /\ \E i \in 1..Len(log) : log[i] = LogRec("warning", "CreatingOrthoDir", ortho_dir)
        /\ ex.text # "InvalidOrthoDir"
        /\ \A i \in 1..Len(calls) :
              calls[i].op = "orthorectify" => calls[i].out.dirs = <<ortho_dir>>

\* C5: in batch mode, an output directory path that exists and is not a
\* directory makes main() fail: the error is logged and raised to the
\* caller, the pose table is never loaded and no call is made for any image.
C5_InvalidOrthoDirFatal ==
    (ortho_dir # None /\ fs.odir = "file" /\ write_conf = None) =>
        /\ calls = <<>> /\ done = <<>> /\ cam_pos_orid = {} /\ spec_i = 1
        /\ pc \in {"read_conf", "check_args", "except_main", "end"}
        /\ pc = "end" => (status = "raised" /\ LoggedLast(ex))
        /\ (pc = "end" /\ config # Unset /\ NoMatchAt(fs.images) = {}
              /\ fs.dem /\ fs.pos.kind # "missing") =>
              ex = Exc("Exception", "InvalidOrthoDir", ortho_dir)

\* main() failed on the output directory, all other inputs being valid
C5_Witness ==
    /\ status = "raised"
    /\ ex.text = "InvalidOrthoDir"
    /\ fs.odir = "file"
    /\ fs.pos.kind = "table"

\* C6: in batch mode with a loaded configuration, a pattern that matches no
\* file makes main() fail with an error that carries the first such pattern
\* exactly as it was supplied; the error is logged and raised to the caller
\* and no call is made for any image, whatever the other patterns match.
C6_NoMatchFatal ==
    (write_conf = None /\ config # Unset /\ NoMatchAt(fs.images) # {}) =>
        /\ calls = <<>> /\ done = <<>> /\ spec_i = 1
        /\ pc \in {"check_args", "except_main", "end"}
        /\ pc # "check_args" =>
              /\ ex.type = "Exception" /\ ex.text = "NoMatch"
              /\ ex.arg = src_im_file[FirstOf(NoMatchAt(fs.images))]
        /\ pc = "end" => (status = "raised" /\ LoggedLast(ex))

\* one pattern matched files, the other none, and its spelling differs from
\* its normalised path
C6_Witness ==
    /\ status = "raised"
    /\ ex.text = "NoMatch"
    /\ ex.arg = d2_a_tif
    /\ \E i \in 1..Len(src_im_file) : Glob(Path(src_im_file[i]), fs.images) # {}

\* the errors of configuration loading, of the DEM and pose file checks and
\* of pose table loading
BatchFatalTexts == {"ConfigNotFound", "ConfigParseError", "DemNotFound",
                    "PoseFileNotFound", "PoseTableParseError"}

\* a configuration that cannot be loaded or, in batch mode, a missing DEM,
\* a missing pose file or an unparsable pose table
BatchFatalInput ==
    \/ fs.conf[config_filename].kind # "yaml"
    \/ write_conf = None /\ (~fs.dem \/ fs.pos.kind # "table")

\* C7: a missing or unparsable configuration, a missing DEM, a missing pose
\* file or an unparsable pose table make main() log the error and raise it
\* to the caller; when one of these errors is raised no call has been made
\* for any image.
C7_BatchFatalFirst ==
    /\ (BatchFatalInput /\ pc = "end") => (status = "raised" /\ LoggedLast(ex))
    /\ BatchFatalInput => (calls = <<>> /\ done = <<>> /\ pc \notin BodyPcs)
    /\ ex.text \in BatchFatalTexts =>
          (calls = <<>> /\ done = <<>> /\ status \in {"running", "raised"})
    /\ (pc = "end" /\ fs.conf[config_filename].kind = "missing") => ex.text = "ConfigNotFound"
    /\ (pc = "end" /\ fs.conf[config_filename].kind = "unparsable") => ex.text = "ConfigParseError"
    /\ (pc = "end" /\ write_conf = None /\ CheckArgsError(fs) = NoEx
          /\ config # Unset /\ fs.pos.kind = "unparsable") => ex.text = "PoseTableParseError"
    /\ (pc = "end" /\ write_conf = None /\ config # Unset
          /\ NoMatchAt(fs.images) = {} /\ ~fs.dem) => ex.text = "DemNotFound"
    /\ (pc = "end" /\ write_conf = None /\ config # Unset
          /\ NoMatchAt(fs.images) = {} /\ fs.dem /\ fs.pos.kind = "missing") =>
          ex.text = "PoseFileNotFound"

\* the latest of the batch-fatal errors: the pose table does not parse
C7_Witness ==
    /\ status = "raised"
    /\ ex.text = "PoseTableParseError"
    /\ LoggedLast(ex)

\* C8: an image whose stem is not in the pose table ends as
\* Skipped(PoseNotFound); no call (rio.open, Camera, orthorectify,
\* overviews) is ever made for it; the batch still ends normally with an
\* outcome for every image the patterns resolve to.
C8_PoseNotFoundSkips ==
    spec_i > 1 =>
        /\ \A i \in 1..Len(done) :
              done[i].im.stem \notin Index(cam_pos_orid) =>
                  (done[i].outcome = "Skipped" /\ done[i].reason = "PoseNotFound")
        /\ \A i \in 1..Len(calls) : calls[i].im.stem \in Index(cam_pos_orid)
        /\ (pc \in BodyPcs \ {"locate_pose", "except_image"}) =>
              src_im_filename.stem \in Index(cam_pos_orid)
        /\ pc = "end" =>
              /\ status = "returned"
              /\ \A f \in ResolvedPaths : \E i \in 1..Len(done) : done[i].im = f

\* an image without a pose was skipped and a later image succeeded
C8_Witness ==
    /\ status = "returned"
    /\ \E i, j \in 1..Len(done) :
          /\ done[i].reason = "PoseNotFound"
          /\ done[i].im.stem \notin Index(cam_pos_orid)
          /\ j > i /\ done[j].outcome = "Succeeded"

\* C9 (as claimed): in batch mode a configuration without its camera or
\* its ortho sub-mapping makes main() fail: no source image is opened, no
\* image is skipped for the missing key, and main() ends by raising.
C9_MissingSubMappingFatal ==
    (/\ write_conf = None /\ config # Unset
     /\ ~({"camera", "ortho"} \subseteq DOMAIN config)) =>
        /\ calls = <<>>
        /\ \A i \in 1..Len(done) : done[i].reason # "KeyError"
        /\ pc = "end" => status = "raised"

\* C10: when the configuration loads, the batch-level checks pass and the
\* pose table loads, main() returns normally whatever the outcomes of the
\* images are.
C10_ExitStatusIndependent ==
    InputsValid =>
        /\ status \in {"running", "returned"}
        /\ pc # "except_main"
        /\ pc = "end" => (status = "returned" /\ ex = NoEx /\ Len(done) >= 1)

\* main() returned although every image was skipped, for several reasons
C10_Witness ==
    /\ status = "returned"
    /\ Len(done) >= 2
    /\ \A i \in 1..Len(done) : done[i].outcome = "Skipped"
    /\ \E i, j \in 1..Len(done) : done[i].reason # done[j].reason

CallsOf(op) == {i \in 1..Len(calls) : calls[i].op = op}

\* C12: every orthorectify call is handed, as output path, the file
\* <stem of the source>_ORTHO.tif in ortho_dir when ortho_dir is given, and
\* None when it is not.
C12_OutputPathSelection ==
    \A i \in CallsOf("orthorectify") :
        IF ortho_dir = None
        THEN calls[i].out = NonePath
        ELSE /\ calls[i].out.dirs = <<ortho_dir>>
             /\ calls[i].out.stem = calls[i].im.stem \o "_ORTHO"
             /\ calls[i].out.ext = "tif"

\* an image of directory d2 was rectified into out/a_ORTHO.tif
C12_Witness ==
    \E i \in CallsOf("orthorectify") :
        /\ calls[i].im.dirs = <<"d2">>
        /\ calls[i].out = [dirs |-> <<"out">>, stem |-> "a_ORTHO", ext |-> "tif"]

\* r is the floor of pi * tenths / 1800 in units of 1e-4: the angle of
\* tenths of a degree, in radians
IsRadiansOf(r, tenths) == 1800 * r <= PiE4 * tenths /\ PiE4 * tenths < 1800 * (r + 1)

\* C13: every Camera call is handed the position <<easting, northing,
\* altitude>> of the pose row whose key is the stem of its image, unchanged
\* and in that order, and the orientation <<omega, phi, kappa>> of that
\* same row, each angle multiplied by pi/180.
C13_PoseConversion ==
    \A i \in CallsOf("Camera") :
        \E r \in cam_pos_orid :
            /\ r.file = calls[i].im.stem
            /\ calls[i].position = <<r.easting, r.northing, r.altitude>>
            /\ Len(calls[i].orientation) = 3
            /\ IsRadiansOf(calls[i].orientation[1], r.omega)
            /\ IsRadiansOf(calls[i].orientation[2], r.phi)
            /\ IsRadiansOf(calls[i].orientation[3], r.kappa)

\* a camera was built for an image of stem a from the row of the spec's
\* example: 1.5, -0.3 and 90.0 degrees
C13_Witness ==
    \E i \in CallsOf("Camera") :
        /\ calls[i].im.stem = "a"
        /\ calls[i].position = <<500000, 4000000, 1200>>
        /\ calls[i].orientation = <<261, -53, 15708>>
        /\ Cardinality(cam_pos_orid) = 2

\* the call at index i was made for image im and returned
Returned(i, op, im) ==
    /\ i \in 1..Len(calls)
    /\ calls[i].op = op
    /\ calls[i].im = im
    /\ calls[i].result = "returned"

\* C14: every orthorectify call directly follows a Camera call that
\* returned for the same image, which directly follows a rio.open call that
\* returned for that image; the Camera call was handed the pose of the row
\* of that image and the transform and size read from it. Every
\* build_ortho_overviews call is made with build_ovw true and directly
\* follows an orthorectify call that returned for the same image.
C14_StepOrdering ==
    /\ \A i \in CallsOf("orthorectify") :
          /\ Returned(i - 1, "Camera", calls[i].im)
          /\ Returned(i - 2, "rio.open", calls[i].im)
          /\ calls[i].im.stem \in Index(cam_pos_orid)
          /\ calls[i - 2].position = Position(Loc(cam_pos_orid, calls[i].im.stem))
          /\ calls[i - 2].geo_transform = <<>>
          /\ calls[i - 1].geo_transform = transform(calls[i].im)
          /\ calls[i - 1].im_size = size(calls[i].im)
    /\ \A i \in CallsOf("build_ortho_overviews") :
          /\ config["ortho"]["build_ovw"]
          /\ Returned(i - 1, "orthorectify", calls[i].im)

\* overviews were built for one image, and for a later image orthorectify
\* raised so that the run ended without overviews for it
C14_Witness ==
    /\ pc = "end"
    /\ \E i \in CallsOf("build_ortho_overviews") :
          \E j \in CallsOf("orthorectify") :
             /\ j > i
             /\ j = Len(calls)
             /\ calls[j].result = "raised"

\* C16: the opened dataset of a source image is held only while its
\* transform and size are read: at most one is open, it is the dataset of
\* the image in progress, and none is open when the camera is built, when
\* orthorectify or build_ortho_overviews is called, in the handler of a
\* failed step, when the next image begins or when main() has ended.
C16_HandleScoping ==
    /\ Len(fs.handles) <= 1
    /\ fs.handles # <<>> => pc = "read_geometry" /\ fs.handles = <<src_im_filename>>
    /\ pc = "read_geometry" => fs.handles = <<src_im_filename>>

\* reading the transform of an opened image failed, the image was skipped
\* and the next image begins with no dataset open
C16_Witness ==
    /\ pc = "locate_pose"
    /\ done # <<>>
    /\ done[Len(done)].reason = "ReadError"
    /\ calls[Len(calls)].op = "rio.open"
    /\ calls[Len(calls)].result = "returned"
    /\ fs.handles = <<>>

\* the steps of a loop body, in the order of the code
StepRank(p) ==
    CASE p = "locate_pose"   -> 1
      [] p = "open_source"   -> 2
      [] p = "read_geometry" -> 3
      [] p = "build_camera"  -> 4
      [] p = "rectify"       -> 5
      [] p = "overviews"     -> 6

StepPcs == BodyPcs \ {"except_image"}

\* C15: the handler of a failed step appends one error record to the log,
\* leaves the filesystem (the orthos written so far included) and the
\* engine alone and goes to the next image; a step of a loop body is
\* entered only from the step before it, and the first step only by taking
\* the next glob result, so no step is run again for the failed image.
C15_HandlerOnlyLogs ==
    [][ /\ (pc = "except_image" /\ IsException(ex)) =>
              /\ log' = Append(log, LogRec("error", ex.text, ex.arg))
              /\ fs' = fs
              /\ calls' = calls
              /\ pending' = pending
              /\ pc' = "for_image"
        /\ (pc' \in StepPcs /\ pc' # pc) =>
              IF pc' = "locate_pose"
              THEN pc = "for_image" /\ pending' = Tail(pending)
              ELSE pc \in StepPcs /\ StepRank(pc') = StepRank(pc) + 1
      ]_vars

\* overview building failed after orthorectify had written the ortho: the
\* image is skipped and its ortho, without overviews, is still on disk
C15_Witness ==
    /\ pc = "for_image"
    /\ done # <<>>
    /\ done[Len(done)].reason = "OverviewError"
    /\ \E a \in fs.ortho : a.src = done[Len(done)].im /\ ~a.ovw
    /\ log[Len(log)] = LogRec("error", "OverviewError", EngineMessage)

\* the messages whose argument is the path of the image, not a string
PathMessages == {"IOError", "ReadError"}

\* the record names the image: its message holds the path of the image or
\* its stem
NamesImage(rec, im) ==
    IF rec.text \in PathMessages THEN rec.arg = im ELSE rec.arg = im.stem

\* C17 (as claimed): when an image has just been skipped, the error record
\* logged for it names that image.
C17_FailureLogNamesImage ==
    (pc = "for_image" /\ done # <<>> /\ done[Len(done)].outcome = "Skipped") =>
        /\ log[Len(log)].level = "error"
        /\ NamesImage(log[Len(log)], done[Len(done)].im)

\* the errors of configuration loading and of _check_args
LoadAndCheckTexts == {"ConfigNotFound", "ConfigParseError", "NoMatch",
                      "DemNotFound", "PoseFileNotFound", "InvalidOrthoDir"}

\* the pattern, DEM and pose file checks of _check_args pass
EarlierChecksPass ==
    /\ NoMatchAt(fs.images) = {}
    /\ fs.dem
    /\ fs.pos.kind # "missing"

\* C18: when main() has raised an error of configuration loading or of
\* _check_args, the filesystem is the one main() was called with: no
\* output directory made, no ortho and no configuration file written. The
\* ortho_dir check is the last check: its error is raised, and the
\* directory is made, only when the pattern, DEM and pose file checks pass.
C18_BatchFatalLeavesFilesystem ==
    /\ (status = "raised" /\ ex.text \in LoadAndCheckTexts) => fs = fs0
    /\ ex.text = "InvalidOrthoDir" => EarlierChecksPass
    /\ fs.odir # fs0.odir => EarlierChecksPass

\* main() has raised the ortho_dir error for a directory that does not
\* exist, and it still does not exist
C18_Witness ==
    /\ pc = "end"
    /\ status = "raised"
    /\ ex.text = "InvalidOrthoDir"
    /\ fs0.odir = "absent"
    /\ fs = fs0

\* C19: in a run with write_conf given whose configuration file does not
\* exist or cannot be parsed, nothing is ever written to write_conf, the
\* process never exits with status 0, no step after the loading of the
\* configuration is taken, and main() ends by logging the loading error
\* and raising it.
C19_WriteNeedsLoad ==
    (write_conf # None /\ fs0.conf[config_filename].kind # "yaml") =>
        /\ fs.wc = MissingFile
        /\ status # "exit0"
        /\ pc \in {"read_conf", "except_main", "end"}
        /\ pc = "end" =>
              /\ status = "raised"
              /\ ex.text \in {"ConfigNotFound", "ConfigParseError"}
              /\ LoggedLast(ex)

\* write_conf and no read_conf were given, the default configuration file
\* does not exist, the target could have been written, and main() raised
C19_Witness ==
    /\ pc = "end"
    /\ write_conf # None
    /\ read_conf = None
    /\ fs0.conf["default"].kind = "missing"
    /\ fs0.wc_dir
    /\ status = "raised"
    /\ fs.wc = MissingFile

\* C20 (as claimed): with ortho_dir given, orthorectify calls for two
\* different source images are handed different output paths, and every
\* image that succeeded still has its own ortho on disk.
C20_OutputPathsDistinct ==
    ortho_dir # None =>
        /\ \A i, j \in CallsOf("orthorectify") :
              calls[i].im # calls[j].im => calls[i].out # calls[j].out
        /\ \A k \in 1..Len(done) :
              done[k].outcome = "Succeeded" =>
                  \E a \in fs.ortho : a.src = done[k].im

====
